---- MODULE Spec2Model ----
(***************************************************************************)
(* withHotKeys (src/lib/withHotKeys.js): a higher-order component.         *)
(* withHotKeys(keyMap, componentProps)(Component) is a PureComponent that  *)
(* renders <HotKeys {...props}><Component ref={_setRef} {...this.props}/>  *)
(* </HotKeys> and, in componentDidMount, copies the mounted Component's    *)
(* hotKeyHandlers into its own state.                                      *)
(*                                                                         *)
(* JavaScript objects are modelled by reference: a value is a string that  *)
(* is either a primitive ("down", "span", "undefined", "null") or the      *)
(* identity of an object ("K", "C", "D_w1", ...); the content of an object *)
(* is looked up through ContentOf, so that "the same object" and "an equal *)
(* copy" are different values.  Object contents are functions from a set   *)
(* of own keys to values.                                                  *)
(***************************************************************************)
EXTENDS Naturals, FiniteSets, TLC

VARIABLES
    heap,        \* contents of the mutable objects: keyMap "K", componentProps "C", declared handler maps
    configArg,   \* the second argument of withHotKeys: "C" (an object) or "undefined"
    inst,        \* the HotKeysWrapper instances
    tgt,         \* the mounted Component instance under each wrapper
    roster,      \* the wrapper instances the host creates in this run
    quota        \* events the surroundings (parent, Component, holders of the maps) may still cause

vars == <<heap, configArg, inst, tgt, roster, quota>>

\* ---------------------------------------------------------------- bounds
\* Events of the surroundings in a run with one wrapper instance.
MaxEnvEvents == 3
\* Events of the surroundings in a run with several wrapper instances.
MaxSharedEvents == 1

\* ---------------------------------------------------------------- universe
Instances == {"w1", "w2"}

\* The kinds of Component the factory is applied to: a class that assigns
\* this.hotKeyHandlers, a class that does not, and a function component (the
\* host creates no instance for it and never calls its ref).
TargetTypes == {"Declares", "NoDeclare", "Function"}

\* The object with no own keys.
EmptyObject == [k \in {} |-> "undefined"]

\* Object identities.
KeyMapRef == "K"
ConfigRef == "C"
DeclaredMap(i)     == IF i = "w1" THEN "D_w1" ELSE "D_w2"   \* target's own map
\* Mutant of InitialHandlers: the state starts as the Component's declared map.
InitialHandlers_Declared(i) == DeclaredMap(i)
InitialHandlers(i) == IF i = "w1" THEN "E_w1" ELSE "E_w2"   \* the {} of line 53
ReplacedMap(i)     == IF i = "w1" THEN "R_w1" ELSE "R_w2"   \* a map the target assigns later
TargetOf(i)        == IF i = "w1" THEN "t_w1" ELSE "t_w2"   \* the Component instance
SetRefOf(i)        == IF i = "w1" THEN "_setRef_w1" ELSE "_setRef_w2" \* the bound callback

OwnMaps(i) == {DeclaredMap(i), ReplacedMap(i)}

\* Contents the environment can give the mutable objects.
KeyMapContents  == { [a \in {"logConsole"} |-> "down"], [a \in {"logConsole"} |-> "up"] }
HandlerContents == { EmptyObject, [a \in {"logConsole"} |-> "f"] }
ConfigContents  ==
    { EmptyObject,
      [k \in {"foo"} |-> "bar"],
      [k \in {"component"} |-> "span"],
      [k \in {"handlers", "keyMap"} |-> IF k = "handlers" THEN "HX" ELSE "KX"],
      [k \in {"children", "ref"} |-> IF k = "children" THEN "cfgChild" ELSE "cfgRef"] }

\* What the parent passes in <HotKeysWrapper ... />.
CallerConfigs ==
    { [k \in {"id"} |-> "x"],
      [k \in {"id", "handlers"} |-> IF k = "id" THEN "y" ELSE "callerHandlers"],
      [k \in {"id", "ref", "children"} |->
            IF k = "id" THEN "x" ELSE IF k = "ref" THEN "callerRef" ELSE "kid"] }

\* Content of any object; objects outside the heap never change.
ContentOf(ref) ==
    IF ref \in DOMAIN heap THEN heap[ref]
    ELSE IF ref \in {"R_w1", "R_w2"} THEN [a \in {"logConsole"} |-> "g"]
    ELSE IF ref = "HX" THEN [a \in {"logConsole"} |-> "h"]
    ELSE IF ref = "KX" THEN [a \in {"logConsole"} |-> "left"]
    ELSE EmptyObject

IsObject(v) == v \in DOMAIN heap \cup {"R_w1", "R_w2", "HX", "KX", "E_w1", "E_w2"}

TargetIds == {TargetOf(i) : i \in Instances}

\* ---------------------------------------------------------------- pure parts
\* Mutant of ObjectSpread: the keys already present are kept.
ObjectSpread_FirstWins(target, source) ==
    [k \in DOMAIN target \cup DOMAIN source |->
        IF k \in DOMAIN target THEN target[k] ELSE source[k]]

\* {...target, ...source}: own keys of source are written last and win.
ObjectSpread(target, source) ==
    [k \in DOMAIN target \cup DOMAIN source |->
        IF k \in DOMAIN source THEN source[k] ELSE target[k]]

\* `...componentProps`: spreading undefined adds nothing.
ComponentProps ==
    IF configArg = "undefined" THEN EmptyObject ELSE ContentOf(configArg)

\* Mutant of DefaultProps: keyMap: { ...keyMap }, a copy made at each render.
DefaultProps_CopiesKeyMap(handlers) ==
    [k \in {"keyMap", "handlers", "component"} |->
        IF k = "keyMap" THEN "K_copy"
        ELSE IF k = "handlers" THEN handlers
        ELSE "document-fragment"]

\* { keyMap, handlers, component: "document-fragment" } of lines 68-71.
DefaultProps(handlers) ==
    [k \in {"keyMap", "handlers", "component"} |->
        IF k = "keyMap" THEN KeyMapRef
        ELSE IF k = "handlers" THEN handlers
        ELSE "document-fragment"]

\* const props = { keyMap, handlers, component, ...componentProps }
BuildProps(handlers) == ObjectSpread(DefaultProps(handlers), ComponentProps)

\* Keys a JSX element takes out of its attributes instead of passing them on.
ReservedKeys == {"ref", "key"}

\* JSX <Type {...config}>children</Type>: ref and key leave the props, a JSX
\* child replaces props.children.  children = "none" when the element has none.
CreateElement(config, children) ==
    LET own == [k \in DOMAIN config \ ReservedKeys |-> config[k]]
    IN  [ props |-> IF children = "none" THEN own
                    ELSE ObjectSpread(own, [k \in {"children"} |-> children]),
          ref   |-> IF "ref" \in DOMAIN config THEN config["ref"] ELSE "null" ]

\* <HotKeys {...props}> <Component .../> </HotKeys>
HotKeysElement(handlers) == CreateElement(BuildProps(handlers), "targetElement")

\* Mutant of TargetElement: the wrapper's state is passed down as well.
TargetElement_LeaksState(i, props) ==
    CreateElement(
        ObjectSpread(ObjectSpread([k \in {"ref"} |-> SetRefOf(i)], props),
                     [k \in {"handlers"} |-> inst[i].handlers]),
        "none")

\* Mutant of TargetElement: a ref the caller put on the wrapper is passed on
\* to the Component in place of _setRef.
TargetElement_ForwardsCallerRef(i, props) ==
    CreateElement(
        ObjectSpread(props,
                     [k \in {"ref"} |-> IF inst[i].ownRef # "null"
                                        THEN inst[i].ownRef ELSE SetRefOf(i)]),
        "none")

\* <Component ref={this._setRef} {...this.props} />
TargetElement(i, props) ==
    CreateElement(ObjectSpread([k \in {"ref"} |-> SetRefOf(i)], props), "none")

\* Mutant of ReadHotKeyHandlers: { ...this._ref.hotKeyHandlers }, a fresh copy.
ReadHotKeyHandlers_Copy(ref) ==
    IF tgt[ref].hotKeyHandlers = "undefined" THEN "E_copy" ELSE "D_copy"

\* Mutant of ReadHotKeyHandlers: this._ref.hotKeyHandlers, but an empty map
\* counts as none.
ReadHotKeyHandlers_EmptyIsNone(ref) ==
    IF ContentOf(tgt[ref].hotKeyHandlers) = EmptyObject
    THEN "undefined" ELSE tgt[ref].hotKeyHandlers

\* this._ref.hotKeyHandlers
ReadHotKeyHandlers(ref) == tgt[ref].hotKeyHandlers

\* Mutant of ShouldUpdate: a plain Component, every update renders.
ShouldUpdate_Always(w, nextProps, nextHandlers) == TRUE

\* PureComponent: render again only when props or state differ shallowly.
ShouldUpdate(w, nextProps, nextHandlers) ==
    nextProps # w.props \/ nextHandlers # w.handlers

\* ---------------------------------------------------------------- state
Unborn ==
    [ phase |-> "unborn", ttype |-> "none", props |-> EmptyObject,
      handlers |-> "undefined", pending |-> "none", ref |-> "undefined",
      hk |-> EmptyObject, hkRef |-> "null", tprops |-> EmptyObject,
      tref |-> "null", renders |-> 0,
      reads |-> 0,        \* times this._ref has been dereferenced
      ownRef |-> "null",  \* the ref the caller put on <HotKeysWrapper>
      callerSees |-> "unset",   \* what that ref of the caller holds
      lastCheck |-> "none" ]    \* outcome of the latest PureComponent check

NoTarget == [ alive |-> FALSE, hotKeyHandlers |-> "undefined" ]

\* withHotKeys(keyMap) or withHotKeys(keyMap, componentProps) has been called
\* with the documented keyMap; each Component class declares one handler.
InitWith(r, q) ==
    /\ roster = r
    /\ quota = q
    /\ configArg \in {"undefined", ConfigRef}
    /\ \E cp \in ConfigContents :
          heap = [o \in {KeyMapRef, ConfigRef, "D_w1", "D_w2"} |->
                     IF o = KeyMapRef THEN [a \in {"logConsole"} |-> "down"]
                     ELSE IF o = ConfigRef
                          THEN (IF configArg = "undefined" THEN EmptyObject ELSE cp)
                     ELSE [a \in {"logConsole"} |-> "f"]]
    /\ inst = [i \in Instances |-> Unborn]
    /\ tgt = [t \in TargetIds |-> NoTarget]

\* One wrapper instance in a lively environment.
Init == InitWith({"w1"}, MaxEnvEvents)

\* Several wrapper instances of the wrapper types of one factory call.
InitMulti == InitWith(Instances, MaxSharedEvents)

\* What one render() call leaves in the tree.
Rendered(i, w, props, handlers) ==
    LET h == HotKeysElement(handlers)
        t == TargetElement(i, props)
    IN  [w EXCEPT !.props = props, !.handlers = handlers, !.pending = "none",
                  !.hk = h.props, !.hkRef = h.ref,
                  !.tprops = t.props, !.tref = t.ref,
                  !.renders = @ + 1]

\* ---------------------------------------------------------------- actions
\* new HotKeysWrapper(props): lines 49-55.
Construct(i, T, cfg) ==
    /\ i \in roster
    /\ inst[i].phase = "unborn"
    /\ inst' = [inst EXCEPT ![i] =
                  [inst[i] EXCEPT !.phase = "constructed", !.ttype = T,
                            !.props = CreateElement(cfg, "none").props,
                            !.ownRef = CreateElement(cfg, "none").ref,
                            !.handlers = InitialHandlers(i)]]
    /\ UNCHANGED <<heap, configArg, tgt, roster, quota>>

\* The first render(), lines 65-87; the host then instantiates a class Component.
InitialRender(i) ==
    /\ inst[i].phase = "constructed"
    /\ inst' = [inst EXCEPT ![i] =
                  [Rendered(i, inst[i], inst[i].props, inst[i].handlers) EXCEPT !.phase = "rendered"]]
    /\ tgt' = [tgt EXCEPT ![TargetOf(i)] =
                  IF inst[i].ttype = "Function" THEN @
                  ELSE [ alive |-> TRUE,
                         hotKeyHandlers |-> IF inst[i].ttype = "Declares"
                                            THEN DeclaredMap(i) ELSE "undefined" ]]
    /\ UNCHANGED <<heap, configArg, roster, quota>>

\* Mutant of SetRef: the handle is kept in the factory's closure, one for all
\* instances.
SetRef_Shared(i, node) == [j \in Instances |-> [inst[j] EXCEPT !.ref = node]]

\* _setRef(node), lines 61-63.
SetRef(i, node) == [inst EXCEPT ![i].ref = node]

\* The host attaches the ref of a mounted class Component.
AttachRef(i) ==
    /\ inst[i].phase = "rendered"
    /\ inst[i].ttype # "Function"
    /\ inst[i].tref = SetRefOf(i)
    /\ inst' = [SetRef(i, TargetOf(i)) EXCEPT ![i].phase = "attached"]
    /\ UNCHANGED <<heap, configArg, tgt, roster, quota>>

\* What the caller's ref holds once the host has attached the ref r of the
\* wrapper element of i: the wrapper instance, or null when the ref was taken
\* away.
AttachedOwnRef(i, r) ==
    IF r # "null" THEN i
    ELSE IF inst[i].ownRef # "null" THEN "null"
    ELSE inst[i].callerSees

\* Mutant of ComponentDidMount: a Component without hotKeyHandlers is given an
\* empty map through the handle before the map is read.
ComponentDidMount_WritesTarget(i) ==
    /\ \/ inst[i].phase = "attached"
       \/ inst[i].phase = "rendered" /\ inst[i].ttype = "Function"
    /\ inst' = [inst EXCEPT ![i] =
                  IF inst[i].ref \in {"undefined", "null"}
                  THEN [inst[i] EXCEPT !.phase = "faulted", !.reads = @ + 1]
                  ELSE [inst[i] EXCEPT !.phase = "mounted", !.reads = @ + 1,
                                       !.callerSees = AttachedOwnRef(i, inst[i].ownRef),
                                       !.pending =
                                          IF ReadHotKeyHandlers(inst[i].ref) = "undefined"
                                          THEN InitialHandlers(i)
                                          ELSE ReadHotKeyHandlers(inst[i].ref)]]
    /\ tgt' = IF inst[i].ref \in TargetIds
              THEN [tgt EXCEPT ![inst[i].ref].hotKeyHandlers =
                        IF @ = "undefined" THEN InitialHandlers(i) ELSE @]
              ELSE tgt
    /\ UNCHANGED <<heap, configArg, roster, quota>>

\* componentDidMount(), lines 57-59: setState queues the update; reading a
\* property of undefined or null throws.  The host then attaches the ref the
\* caller put on the wrapper element.
ComponentDidMount(i) ==
    /\ \/ inst[i].phase = "attached"
       \/ inst[i].phase = "rendered" /\ inst[i].ttype = "Function"
    /\ inst' = [inst EXCEPT ![i] =
                  IF inst[i].ref \in {"undefined", "null"}
                  THEN [inst[i] EXCEPT !.phase = "faulted", !.reads = @ + 1]
                  ELSE [inst[i] EXCEPT !.phase = "mounted", !.reads = @ + 1,
                                       !.pending = ReadHotKeyHandlers(inst[i].ref),
                                       !.callerSees = AttachedOwnRef(i, inst[i].ownRef)]]
    /\ UNCHANGED <<heap, configArg, tgt, roster, quota>>

\* Mutant of Updated: the handler map is read again from the Component on
\* every update.
Updated_ReadsAgain(i, nextProps) ==
    LET w == inst[i]
        nextHandlers == IF w.ref \in TargetIds THEN tgt[w.ref].hotKeyHandlers
                        ELSE IF w.pending = "none" THEN w.handlers ELSE w.pending
    IN  IF ShouldUpdate(w, nextProps, nextHandlers)
        THEN [Rendered(i, w, nextProps, nextHandlers)
                 EXCEPT !.phase = "active", !.lastCheck = "render"]
        ELSE [w EXCEPT !.phase = "active", !.pending = "none", !.props = nextProps,
                       !.lastCheck = "skip"]

\* The host processes the update queue and the next props, and calls render()
\* if the PureComponent check says so.
Updated(i, nextProps) ==
    LET w == inst[i]
        nextHandlers == IF w.pending = "none" THEN w.handlers ELSE w.pending
    IN  IF ShouldUpdate(w, nextProps, nextHandlers)
        THEN [Rendered(i, w, nextProps, nextHandlers)
                 EXCEPT !.phase = "active", !.lastCheck = "render"]
        ELSE [w EXCEPT !.phase = "active", !.pending = "none", !.props = nextProps,
                       !.lastCheck = "skip"]

\* The render pass scheduled by componentDidMount's setState.
CommitUpdate(i) ==
    /\ inst[i].phase = "mounted"
    /\ inst' = [inst EXCEPT ![i] = Updated(i, inst[i].props)]
    /\ UNCHANGED <<heap, configArg, tgt, roster, quota>>

\* The parent renders <HotKeysWrapper {...cfg} /> again.
ParentRerender(i, cfg) ==
    /\ inst[i].phase \in {"mounted", "active"}
    /\ quota > 0
    /\ quota' = quota - 1
    /\ inst' = [inst EXCEPT ![i] =
                  [Updated(i, CreateElement(cfg, "none").props)
                     EXCEPT !.ownRef = CreateElement(cfg, "none").ref,
                            !.callerSees = AttachedOwnRef(i, CreateElement(cfg, "none").ref)]]
    /\ UNCHANGED <<heap, configArg, tgt, roster>>

\* The host removes the tree, at any point after componentDidMount has run:
\* the ref of a class Component is called with null, and so is the caller's
\* ref of the wrapper.  An update still queued is dropped with the instance,
\* and a wrapper whose componentDidMount threw is removed the same way.
Unmount(i) ==
    /\ inst[i].phase \in {"mounted", "active", "faulted"}
    /\ inst' = [(IF inst[i].ttype = "Function" THEN inst ELSE SetRef(i, "null"))
                  EXCEPT ![i].phase = "unmounted",
                         ![i].callerSees = IF inst[i].ownRef # "null" THEN "null" ELSE @]
    /\ tgt' = [tgt EXCEPT ![TargetOf(i)].alive = FALSE]
    /\ UNCHANGED <<heap, configArg, roster, quota>>

\* The Component assigns this.hotKeyHandlers.
TargetAssign(i, m) ==
    /\ tgt[TargetOf(i)].alive
    /\ m # tgt[TargetOf(i)].hotKeyHandlers
    /\ tgt' = [tgt EXCEPT ![TargetOf(i)].hotKeyHandlers = m]
    /\ quota > 0
    /\ quota' = quota - 1
    /\ UNCHANGED <<heap, configArg, inst, roster>>

\* The Component adds or removes an entry of its declared map in place.
TargetMutate(i, c) ==
    /\ tgt[TargetOf(i)].alive
    /\ c # heap[DeclaredMap(i)]
    /\ heap' = [heap EXCEPT ![DeclaredMap(i)] = c]
    /\ quota > 0
    /\ quota' = quota - 1
    /\ UNCHANGED <<configArg, inst, tgt, roster>>

\* Someone holding the keyMap object changes it after composition.
MutateKeyMap(c) ==
    /\ c # heap[KeyMapRef]
    /\ heap' = [heap EXCEPT ![KeyMapRef] = c]
    /\ quota > 0
    /\ quota' = quota - 1
    /\ UNCHANGED <<configArg, inst, tgt, roster>>

\* Someone holding the componentProps object changes it after composition.
MutateConfig(c) ==
    /\ configArg = ConfigRef
    /\ c # heap[ConfigRef]
    /\ heap' = [heap EXCEPT ![ConfigRef] = c]
    /\ quota > 0
    /\ quota' = quota - 1
    /\ UNCHANGED <<configArg, inst, tgt, roster>>

Next ==
    \/ \E i \in Instances, T \in TargetTypes, cfg \in CallerConfigs : Construct(i, T, cfg)
    \/ \E i \in Instances : InitialRender(i)
    \/ \E i \in Instances : AttachRef(i)
    \/ \E i \in Instances : ComponentDidMount(i)
    \/ \E i \in Instances : CommitUpdate(i)
    \/ \E i \in Instances, cfg \in CallerConfigs : ParentRerender(i, cfg)
    \/ \E i \in Instances : Unmount(i)
    \/ \E i \in Instances : \E m \in OwnMaps(i) \cup {"undefined"} : TargetAssign(i, m)
    \/ \E i \in Instances, c \in HandlerContents : TargetMutate(i, c)
    \/ \E c \in KeyMapContents : MutateKeyMap(c)
    \/ \E c \in ConfigContents : MutateConfig(c)

Spec == Init /\ [][Next]_vars

SpecMulti == InitMulti /\ [][Next]_vars

\* ---------------------------------------------------------------- vocabulary of the properties
\* A step in which render() of i runs.
RenderStep(i) == inst'[i].renders = inst[i].renders + 1

\* componentDidMount of i has run (without fault) and i is still in the tree.
AfterDidMount(i) == inst[i].phase \in {"mounted", "active"}

\* The step in which componentDidMount of i runs to its end.
DidMountStep(i) ==
    /\ inst[i].phase \in {"rendered", "attached"}
    /\ inst'[i].phase = "mounted"

\* The step in which componentDidMount of i runs, to its end or to a fault.
DidMountAttempt(i) ==
    /\ inst[i].phase \in {"rendered", "attached"}
    /\ inst'[i].phase \in {"mounted", "faulted"}

\* The value componentDidMount read: queued, or already in this.state.
Captured(i) ==
    IF inst[i].pending # "none" THEN inst[i].pending ELSE inst[i].handlers

HandlerMapOf(i) == tgt[TargetOf(i)].hotKeyHandlers

\* ---------------------------------------------------------------- C1
\* C1 as stated: in every render after componentDidMount, for a target that
\* exposes a handler map, the dispatch unit's handlers is the very map the
\* target declares and keyMap is the factory's keyMap.
C1_AsStated ==
    [][\A i \in Instances :
          (RenderStep(i) /\ AfterDidMount(i) /\ IsObject(HandlerMapOf(i)))
             => /\ inst'[i].hk["handlers"] = HandlerMapOf(i)
                /\ inst'[i].hk["keyMap"] = KeyMapRef]_vars

\* C1 amended: componentDidMount captures the very object the target's
\* hotKeyHandlers holds at that point, the captured reference never changes
\* afterwards, and every render after componentDidMount gives the dispatch
\* unit that captured object as handlers unless componentProps has a
\* "handlers" key, and the factory's keyMap unless componentProps has a
\* "keyMap" key.
C1_HandlersAreCapturedMap ==
    [][\A i \in Instances :
          /\ (DidMountStep(i) /\ IsObject(HandlerMapOf(i)))
                => Captured(i)' = HandlerMapOf(i)
          /\ (AfterDidMount(i) /\ IsObject(Captured(i)))
                => Captured(i)' = Captured(i)
          /\ (RenderStep(i) /\ AfterDidMount(i) /\ IsObject(Captured(i)))
                => /\ "handlers" \notin DOMAIN ComponentProps
                        => inst'[i].hk["handlers"] = Captured(i)
                   /\ "keyMap" \notin DOMAIN ComponentProps
                        => inst'[i].hk["keyMap"] = KeyMapRef]_vars

\* A wrapper rendered after activation around a target whose declared map
\* {logConsole: f} is what the dispatch unit now holds.
C1_Witness ==
    \E i \in Instances :
        /\ inst[i].phase = "active"
        /\ inst[i].renders >= 2
        /\ HandlerMapOf(i) = DeclaredMap(i)
        /\ "logConsole" \in DOMAIN ContentOf(DeclaredMap(i))
        /\ inst[i].hk["handlers"] = DeclaredMap(i)
        /\ inst[i].hk["keyMap"] = KeyMapRef

\* ---------------------------------------------------------------- C2
DefaultKeys == {"keyMap", "handlers", "component"}

DefaultValue(i, k) ==
    IF k = "keyMap" THEN KeyMapRef
    ELSE IF k = "handlers" THEN inst[i].handlers
    ELSE "document-fragment"

\* C2 as stated: in every render, every key of componentProps reaches the
\* dispatch unit with componentProps' value, and every default key that
\* componentProps lacks keeps its computed value.
C2_AsStated ==
    [][\A i \in Instances : RenderStep(i) =>
          /\ \A k \in DOMAIN ComponentProps :
                /\ k \in DOMAIN inst'[i].hk
                /\ inst'[i].hk[k] = ComponentProps[k]
          /\ \A k \in DefaultKeys \ DOMAIN ComponentProps :
                inst'[i].hk[k] = DefaultValue(i, k)']_vars

\* C2 amended: the same, for every key of componentProps other than
\* "children" and the element's own "ref" and "key": the dispatch unit's
\* children is always the target element, and ref/key are not among its
\* properties (a "ref" of componentProps becomes the dispatch element's ref).
C2_MergeOverrideWins ==
    [][\A i \in Instances : RenderStep(i) =>
          /\ \A k \in DOMAIN ComponentProps \ ({"children"} \cup ReservedKeys) :
                /\ k \in DOMAIN inst'[i].hk
                /\ inst'[i].hk[k] = ComponentProps[k]
          /\ \A k \in DefaultKeys \ DOMAIN ComponentProps :
                inst'[i].hk[k] = DefaultValue(i, k)'
          /\ inst'[i].hk["children"] = "targetElement"
          /\ DOMAIN inst'[i].hk \cap ReservedKeys = {}
          /\ "ref" \in DOMAIN ComponentProps => inst'[i].hkRef = ComponentProps["ref"]
          /\ DOMAIN inst'[i].hk =
                (DefaultKeys \cup {"children"} \cup DOMAIN ComponentProps) \ ReservedKeys]_vars

\* Overrides won before and after activation: the dispatch unit holds the
\* handlers and keyMap of componentProps in a render made after activation.
C2_Witness ==
    \E i \in Instances :
        /\ inst[i].phase = "active"
        /\ inst[i].renders >= 2
        /\ inst[i].handlers \in OwnMaps(i)
        /\ inst[i].hk["handlers"] = "HX"
        /\ inst[i].hk["keyMap"] = "KX"
        /\ inst[i].hk["component"] = "document-fragment"

\* ---------------------------------------------------------------- C3
\* C3: after every render the target element carries exactly the wrapper's
\* own props, each with its value, nothing else, and the wrapper's _setRef
\* as its ref.
C3_PropsForwardedVerbatim ==
    \A i \in Instances : inst[i].renders >= 1 =>
        /\ \A k \in DOMAIN inst[i].props :
              k \in DOMAIN inst[i].tprops /\ inst[i].tprops[k] = inst[i].props[k]
        /\ \A k \in DOMAIN inst[i].tprops : k \in DOMAIN inst[i].props
        /\ inst[i].tref = SetRefOf(i)

\* A wrapper re-rendered by its parent after activation with a prop named
\* like a dispatch property, while the dispatch unit holds the target's map.
C3_Witness ==
    \E i \in Instances :
        /\ inst[i].phase = "active"
        /\ inst[i].renders >= 3
        /\ inst[i].tprops["id"] = "y"
        /\ inst[i].tprops["handlers"] = "callerHandlers"
        /\ inst[i].hk["handlers"] = DeclaredMap(i)

\* ---------------------------------------------------------------- C4
\* The activation's update has been committed (every commit ends with the
\* PureComponent check).
Activated(i) ==
    \/ inst[i].phase = "active"
    \/ inst[i].phase = "unmounted" /\ inst[i].lastCheck # "none"

\* After construction, this.state.handlers is written only by the commit of
\* the update that componentDidMount queued, that commit does write it unless
\* the instance is torn down first (the queued update is then dropped and the
\* state is never written), and no step after it changes it.
WrittenOnceAtActivation(i) ==
    /\ DidMountStep(i) =>
          /\ inst'[i].pending = HandlerMapOf(i)
          /\ inst'[i].handlers = inst[i].handlers
    /\ (inst[i].phase # "unborn" /\ inst'[i].handlers # inst[i].handlers) =>
          /\ inst[i].phase = "mounted"
          /\ inst'[i].phase = "active"
          /\ inst'[i].handlers = inst[i].pending
    /\ (inst[i].phase = "mounted" /\ inst'[i].phase # "mounted") =>
          \/ /\ inst'[i].phase = "active"
             /\ inst'[i].handlers # inst[i].handlers
          \/ /\ inst'[i].phase = "unmounted"
             /\ inst'[i].handlers = inst[i].handlers
             /\ inst'[i].pending = inst[i].pending
    /\ inst[i].phase \in {"faulted", "unmounted"} =>
          inst'[i].handlers = inst[i].handlers
    /\ Activated(i) =>
          /\ Activated(i)'
          /\ inst'[i].handlers = inst[i].handlers
          /\ inst'[i].pending = "none"

\* C4 as stated: the state is written once, at activation, and every render
\* after activation gives the dispatch unit the map read at activation.
C4_AsStated ==
    [][\A i \in Instances :
          /\ WrittenOnceAtActivation(i)
          /\ (RenderStep(i) /\ AfterDidMount(i))
                => inst'[i].hk["handlers"] = Captured(i)]_vars

\* C4 amended: the state is written once, at activation, and every render
\* after activation gives the dispatch unit the map read at activation
\* unless componentProps has a "handlers" key.
C4_StateWrittenOnce ==
    [][\A i \in Instances :
          /\ WrittenOnceAtActivation(i)
          /\ (RenderStep(i) /\ AfterDidMount(i)
                /\ "handlers" \notin DOMAIN ComponentProps)
                => inst'[i].hk["handlers"] = Captured(i)]_vars

\* After activation the target assigned another map and the parent rendered
\* the wrapper again with other props; the wrapper was then torn down.  The
\* state is still the map read at activation.
C4_Witness ==
    \E i \in Instances :
        /\ inst[i].phase = "unmounted"
        /\ inst[i].renders >= 3
        /\ inst[i].handlers = DeclaredMap(i)
        /\ HandlerMapOf(i) = ReplacedMap(i)
        /\ inst[i].hk["handlers"] = DeclaredMap(i)

\* ---------------------------------------------------------------- C5
\* The dispatch unit of i is mounted and the activation's update is not yet
\* committed.
BeforeActivationCompleted(i) == inst[i].phase \in {"rendered", "attached", "mounted"}

EmptyMap(v) == IsObject(v) /\ ContentOf(v) = EmptyObject

\* C5 as stated: before the activation has completed the dispatch unit
\* holds an empty handler map.
C5_AsStated ==
    \A i \in Instances :
        BeforeActivationCompleted(i) => EmptyMap(inst[i].hk["handlers"])

\* C5 amended: the only render before the activation has completed is the
\* initial one; unless componentProps has a "handlers" key at that render it
\* gives the dispatch unit an empty map, and until the activation's update is
\* committed the dispatch unit's properties do not change and that map stays
\* empty.
C5_EmptyUntilActivated ==
    [][\A i \in Instances : BeforeActivationCompleted(i)' =>
          IF RenderStep(i)
          THEN /\ inst[i].phase = "constructed"
               /\ "handlers" \notin DOMAIN ComponentProps
                     => /\ EmptyMap(inst[i].hk["handlers"])'
                        /\ inst'[i].hk["handlers"] = InitialHandlers(i)
          ELSE /\ inst'[i].hk = inst[i].hk
               /\ EmptyMap(inst[i].hk["handlers"])
                     => EmptyMap(inst[i].hk["handlers"])']_vars

\* componentDidMount has read a non-empty map {logConsole: f}, its update is
\* not committed yet, and the dispatch unit still holds the empty map.
C5_Witness ==
    \E i \in Instances :
        /\ inst[i].phase = "mounted"
        /\ inst[i].pending = DeclaredMap(i)
        /\ "logConsole" \in DOMAIN ContentOf(DeclaredMap(i))
        /\ inst[i].hk["handlers"] = InitialHandlers(i)
        /\ EmptyMap(inst[i].hk["handlers"])

\* ---------------------------------------------------------------- C6
\* C6: every run of componentDidMount comes after exactly the initial render
\* (which had the empty initial state) and with the target attached, runs to
\* its end, renders nothing itself and queues one update; it never runs a
\* second time for the instance; committing the queued update is exactly one
\* render, with the captured map as state, in a later step than the initial
\* render; and every other render is the initial one or one the parent
\* caused.
C6_AsStated ==
    [][\A i \in Instances :
          /\ (inst[i].phase = "constructed" /\ RenderStep(i)) =>
                /\ inst'[i].renders = 1
                /\ inst'[i].handlers = InitialHandlers(i)
                /\ inst'[i].pending = "none"
          /\ DidMountAttempt(i) =>
                /\ inst[i].renders = 1
                /\ inst[i].ref = TargetOf(i)
                /\ tgt[TargetOf(i)].alive
                /\ inst'[i].phase = "mounted"
                /\ inst'[i].renders = inst[i].renders
                /\ inst'[i].hk = inst[i].hk
                /\ inst'[i].pending # "none"
          /\ inst[i].phase \in {"mounted", "active", "faulted", "unmounted"} =>
                /\ ~ DidMountAttempt(i)
                /\ inst'[i].phase \notin {"unborn", "constructed", "rendered", "attached"}
          /\ (inst[i].phase = "mounted" /\ inst'[i].phase # "mounted") =>
                \/ /\ inst'[i].phase = "active"
                   /\ inst'[i].renders = 2
                   /\ inst'[i].handlers = inst[i].pending
                \/ /\ inst'[i].phase = "unmounted"
                   /\ inst'[i].renders = 1
          /\ inst[i].phase \in {"faulted", "unmounted"} =>
                inst'[i].renders = inst[i].renders
          /\ inst'[i].renders # inst[i].renders =>
                /\ RenderStep(i)
                /\ \/ inst[i].phase = "constructed"
                   \/ inst[i].phase = "mounted"
                   \/ quota' < quota]_vars

\* ---------------------------------------------------------------- C7
\* The parts of C7 that do not concern what the dispatch unit receives: the
\* constructor's state is an empty map, and componentDidMount on a target
\* whose handler map is empty ends without fault with that map captured.
EmptyMapMountsCleanly(i) ==
    /\ (inst[i].phase = "unborn" /\ inst'[i].phase # "unborn") =>
          /\ EmptyMap(inst[i].handlers)'
          /\ inst'[i].phase = "constructed"
    /\ (DidMountAttempt(i) /\ tgt[TargetOf(i)].alive /\ EmptyMap(HandlerMapOf(i))) =>
          /\ inst'[i].phase = "mounted"
          /\ inst'[i].pending = HandlerMapOf(i)

\* C7 as stated: the state is constructed empty, and with a target whose
\* handler map is empty the dispatch unit receives an empty handlers map in
\* the initial render and in the render after activation, without fault.
C7_AsStated ==
    [][\A i \in Instances :
          /\ EmptyMapMountsCleanly(i)
          /\ (inst[i].phase = "constructed" /\ RenderStep(i)) =>
                EmptyMap(inst[i].hk["handlers"])'
          /\ (inst[i].phase = "mounted" /\ RenderStep(i) /\ EmptyMap(inst[i].pending)) =>
                EmptyMap(inst[i].hk["handlers"])']_vars

\* C7 amended: the same, the two renders giving the dispatch unit an empty
\* handlers map (first the constructor's, then the target's own empty map)
\* unless componentProps has a "handlers" key.
C7_EmptyHandlersBothRenders ==
    [][\A i \in Instances :
          /\ EmptyMapMountsCleanly(i)
          /\ (inst[i].phase = "constructed" /\ RenderStep(i)
                /\ "handlers" \notin DOMAIN ComponentProps) =>
                /\ inst'[i].hk["handlers"] = InitialHandlers(i)
                /\ EmptyMap(inst[i].hk["handlers"])'
          /\ (inst[i].phase = "mounted" /\ RenderStep(i) /\ EmptyMap(inst[i].pending)
                /\ "handlers" \notin DOMAIN ComponentProps) =>
                /\ inst'[i].hk["handlers"] = inst[i].pending
                /\ EmptyMap(inst[i].hk["handlers"])']_vars

\* An activated wrapper around a target whose own handler map is empty: the
\* dispatch unit holds that empty map.
C7_Witness ==
    \E i \in Instances :
        /\ inst[i].phase = "active"
        /\ inst[i].renders = 2
        /\ inst[i].handlers = DeclaredMap(i)
        /\ HandlerMapOf(i) = DeclaredMap(i)
        /\ ContentOf(DeclaredMap(i)) = EmptyObject
        /\ inst[i].hk["handlers"] = DeclaredMap(i)

\* ---------------------------------------------------------------- C8
\* The mounted target of i declares no handler map.
DeclaresNoHandlerMap(i) ==
    inst[i].ttype = "Function" \/ HandlerMapOf(i) = "undefined"

\* C8: when the mounted target declares no handler map, componentDidMount
\* ends without fault with undefined (not an empty map) captured, and every
\* later render gives the dispatch unit undefined as handlers unless
\* componentProps has a "handlers" key.
C8_AsStated ==
    [][\A i \in Instances :
          /\ (DidMountAttempt(i) /\ DeclaresNoHandlerMap(i)) =>
                /\ inst'[i].phase = "mounted"
                /\ inst'[i].pending = "undefined"
          /\ (RenderStep(i) /\ AfterDidMount(i) /\ Captured(i) = "undefined"
                /\ "handlers" \notin DOMAIN ComponentProps) =>
                inst'[i].hk["handlers"] = "undefined"]_vars

\* ---------------------------------------------------------------- C9
\* What an instance owns: its state, the queued update, and its handle.
Owned(i) == <<inst[i].handlers, inst[i].pending, inst[i].ref>>

\* C9: a step of one instance changes nothing of another instance; the
\* handle of an instance is its own target or unset, and its state, queued
\* update and handlers come from its own constructor or its own target.
C9_InstancesIsolated ==
    [][\A i \in Instances : \A j \in Instances \ {i} :
          /\ inst'[i] # inst[i] => /\ inst'[j] = inst[j]
                                   /\ tgt'[TargetOf(j)] = tgt[TargetOf(j)]
          /\ tgt'[TargetOf(i)] # tgt[TargetOf(i)] => Owned(j)' = Owned(j)
          /\ inst'[i].ref \in {"undefined", "null", TargetOf(i)}
          /\ inst'[i].handlers \in {"undefined", InitialHandlers(i)} \cup OwnMaps(i)
          /\ inst'[i].pending \in {"none", "undefined"} \cup OwnMaps(i)
          /\ Activated(i)' => inst'[i].handlers \in {"undefined"} \cup OwnMaps(i)]_vars

\* Two instances were activated, each holds the map of its own target, and
\* one was torn down while the other keeps its handle.
C9_Witness ==
    /\ inst["w1"].phase = "unmounted"
    /\ inst["w1"].ref = "null"
    /\ inst["w1"].handlers = DeclaredMap("w1")
    /\ inst["w2"].phase = "active"
    /\ inst["w2"].ref = TargetOf("w2")
    /\ inst["w2"].handlers = DeclaredMap("w2")
    /\ inst["w1"].ttype = inst["w2"].ttype

\* ---------------------------------------------------------------- C10
\* Every render reads componentProps as it is now.
SeesCurrentConfig(i) ==
    \A k \in DOMAIN ComponentProps \ ({"children"} \cup ReservedKeys) :
        /\ k \in DOMAIN inst'[i].hk
        /\ inst'[i].hk[k] = ComponentProps[k]

\* C10 as stated: in every render of every instance the dispatch unit's
\* keyMap is the factory's keyMap object itself, and the render sees
\* componentProps as it is at that render.
C10_AsStated ==
    [][\A i \in Instances : RenderStep(i) =>
          /\ inst'[i].hk["keyMap"] = KeyMapRef
          /\ ContentOf(inst'[i].hk["keyMap"]) = heap[KeyMapRef]
          /\ SeesCurrentConfig(i)]_vars

\* C10 amended: the same, the dispatch unit's keyMap being the factory's
\* keyMap object itself unless componentProps has a "keyMap" key.
C10_SharedByReference ==
    [][\A i \in Instances : RenderStep(i) =>
          /\ "keyMap" \notin DOMAIN ComponentProps =>
                /\ inst'[i].hk["keyMap"] = KeyMapRef
                /\ ContentOf(inst'[i].hk["keyMap"]) = heap[KeyMapRef]
          /\ SeesCurrentConfig(i)]_vars

\* The keyMap object was changed after composition; two instances of
\* different wrapper types hold it, changed, as their dispatch unit's keyMap.
C10_Witness ==
    /\ heap[KeyMapRef]["logConsole"] = "up"
    /\ inst["w1"].ttype # inst["w2"].ttype
    /\ \A i \in Instances :
          /\ inst[i].renders >= 1
          /\ inst[i].hk["keyMap"] = KeyMapRef
          /\ ContentOf(inst[i].hk["keyMap"])["logConsole"] = "up"

\* ---------------------------------------------------------------- C11
\* The values of an object.
ValuesOf(o) == {o[k] : k \in DOMAIN o}

\* Everything the wrapper i hands to another party: the properties and ref of
\* the dispatch element and of the target element.
HandedOut(i) ==
    ValuesOf(inst[i].hk) \cup ValuesOf(inst[i].tprops)
       \cup {inst[i].hkRef, inst[i].tref}

\* C11: this._ref is dereferenced only by componentDidMount, once per
\* instance, and only to read hotKeyHandlers; the handle is held in the
\* wrapper's own _ref field alone (until the host calls _setRef(null)) and is
\* never among what the wrapper hands to the dispatch unit or the target; and
\* no step of the wrapper changes its target's hotKeyHandlers or any map.
C11_HandleReadOnceNeverWritten ==
    [][\A i \in Instances :
          /\ inst'[i].reads # inst[i].reads =>
                /\ DidMountAttempt(i)
                /\ inst[i].reads = 0
                /\ inst'[i].reads = 1
          /\ DidMountStep(i) =>
                /\ inst'[i].reads = 1
                /\ inst'[i].pending = tgt[inst[i].ref].hotKeyHandlers
          /\ inst'[i] # inst[i] =>
                /\ heap' = heap
                /\ tgt[TargetOf(i)].alive =>
                      tgt'[TargetOf(i)].hotKeyHandlers = tgt[TargetOf(i)].hotKeyHandlers
          /\ HandedOut(i)' \cap TargetIds = {}
          /\ {inst'[i].handlers, inst'[i].pending} \cap TargetIds = {}]_vars

\* A torn-down wrapper that was activated around a class target without
\* hotKeyHandlers and re-rendered by its parent: the handle was read once and
\* the target still has no hotKeyHandlers.
C11_Witness ==
    \E i \in Instances :
        /\ inst[i].phase = "unmounted"
        /\ inst[i].ttype = "NoDeclare"
        /\ inst[i].renders >= 3
        /\ inst[i].reads = 1
        /\ inst[i].handlers = "undefined"
        /\ HandlerMapOf(i) = "undefined"

\* ---------------------------------------------------------------- C12
\* C12: the ref of the target element is always the wrapper's own _setRef,
\* no "ref" is among the wrapper's props or the target's props, the caller's
\* ref is not among what the wrapper hands down, and whatever the caller's
\* ref holds is the wrapper instance (or nothing), never the target instance;
\* while a wrapper with a caller's ref is mounted that ref holds the wrapper.
C12_CallerRefNeverReachesTarget ==
    \A i \in Instances :
        /\ inst[i].renders >= 1 =>
              /\ inst[i].tref = SetRefOf(i)
              /\ "ref" \notin DOMAIN inst[i].props \cup DOMAIN inst[i].tprops
              /\ "callerRef" \notin ValuesOf(inst[i].tprops) \cup ValuesOf(inst[i].hk)
        /\ inst[i].callerSees \in {"unset", "null", i}
        /\ inst[i].callerSees \notin TargetIds
        /\ (inst[i].ownRef # "null" /\ AfterDidMount(i)) => inst[i].callerSees = i

\* An activated wrapper whose caller supplied a ref: the ref holds the
\* wrapper, while the wrapper's _setRef got the target instance.
C12_Witness ==
    \E i \in Instances :
        /\ inst[i].phase = "active"
        /\ inst[i].ownRef = "callerRef"
        /\ inst[i].callerSees = i
        /\ inst[i].tref = SetRefOf(i)
        /\ inst[i].ref = TargetOf(i)

\* ---------------------------------------------------------------- C13
\* C13: whenever componentDidMount runs, _setRef has been called for that
\* instance with its mounted target, so the read of hotKeyHandlers goes
\* through a set handle and does not fault, whatever the kind of target.
C13_AsStated ==
    [][\A i \in Instances : DidMountAttempt(i) =>
          /\ inst[i].ref = TargetOf(i)
          /\ tgt[TargetOf(i)].alive
          /\ inst'[i].phase = "mounted"]_vars

\* ---------------------------------------------------------------- C14
\* C14: once the activation's update is committed, a step that leaves the
\* wrapper's props shallow-equal renders nothing: the render count, the
\* dispatch unit's properties and the target element stay as they are; and
\* every render after the initial one comes with a change of the props or of
\* the handlers state.
C14_PureNoRenderOnEqualProps ==
    [][\A i \in Instances :
          /\ (inst[i].phase = "active" /\ inst'[i].props = inst[i].props) =>
                /\ inst'[i].renders = inst[i].renders
                /\ inst'[i].hk = inst[i].hk
                /\ inst'[i].hkRef = inst[i].hkRef
                /\ inst'[i].tprops = inst[i].tprops
                /\ inst'[i].tref = inst[i].tref
          /\ (RenderStep(i) /\ inst[i].phase # "constructed") =>
                \/ inst'[i].props # inst[i].props
                \/ inst'[i].handlers # inst[i].handlers]_vars

\* After activation the parent rendered the wrapper again with shallow-equal
\* props: the PureComponent check skipped the render, and the wrapper has
\* rendered only twice.
C14_Witness ==
    \E i \in Instances :
        /\ inst[i].phase = "active"
        /\ inst[i].lastCheck = "skip"
        /\ inst[i].renders = 2
        /\ quota < MaxEnvEvents
        /\ inst[i].hk["handlers"] = DeclaredMap(i)

====
